---- MODULE Spec2Model ----
(***************************************************************************)
(* Model of scripts/ref_text_.py: the batch run that fills in ref_text for *)
(* the entries of models.json, saving the whole catalog after every        *)
(* successful transcription.                                               *)
(*                                                                         *)
(* A JSON object is a function from its keys to its values; a JSON list is *)
(* [kind |-> "list", items |-> <<...>>], any other value [kind |-> "other"]*)
(* A string that the code inspects (file, ref_text, the transcription) is  *)
(* a sequence of characters.                                               *)
(* The catalog file is the sequence of tokens json.dump writes, so a file  *)
(* that was truncated or written in part is a real, unparsable content.    *)
(***************************************************************************)
EXTENDS Integers, Sequences, FiniteSets, TLC

\* Largest number of entries in a catalog of Init.
MaxEntries == 2

VARIABLES
  pc,             \* position of main()
  run,            \* 1 for the first run of the script, 2 for a second run
  stable,         \* the transcription capability answers alike for like input
  files,          \* the audio files that exist (absolute paths)
  disk,           \* models.json: [exists, content]
  data,           \* main: data
  tasks,          \* main: tasks, each a reference (path) into data
  i,              \* main: index of the loop over tasks (1-based)
  updated_count,  \* main: updated_count
  audio,          \* transcribe_audio: file_path
  language,       \* transcribe_audio: language
  text,           \* main: text
  memo,           \* what the capability answered, per input (used when stable)
  orig,           \* history: the catalog as loaded by this run
  outcome,        \* history: how the handling of each task ended
  calls,          \* history: references handed to transcribe_audio
  committed,      \* history: task indices whose commit save returned
  commit_saves,   \* history: save_models_json calls at line 145
  final_saves,    \* history: save_models_json calls at line 152
  intr,           \* history: where the interruption arrived
  faulted,        \* history: a commit save raised in this run
  prev            \* history: memory and disk at the end of the first run

vars == << pc, run, stable, files, disk, data, tasks, i, updated_count, audio,
           language, text, memo, orig, outcome, calls, committed,
           commit_saves, final_saves, intr, faulted, prev >>

----------------------------------------------------------------------------
(* JSON values *)

JList(s) == [kind |-> "list", items |-> s]
JOther == [kind |-> "other"]
IsList(v) == v.kind = "list"
EmptyObj == [k \in {} |-> JOther]

\* the bug of asking for a key that is never there: 'ref_text' misspelt
TruthyMisspelt(obj, k) ==
  IF k = "ref_text" THEN FALSE ELSE k \in DOMAIN obj /\ obj[k] # << >>

\* dict.get(k) is truthy: the key is there and its value is not empty
Truthy(obj, k) == k \in DOMAIN obj /\ obj[k] # << >>

\* obj[k] = v on a dict
SetKey(obj, k, v) ==
  [x \in (DOMAIN obj) \cup {k} |-> IF x = k THEN v ELSE obj[x]]

Range(s) == { s[n] : n \in DOMAIN s }

----------------------------------------------------------------------------
(* Text: str.strip() *)

Whitespace == {" ", "\t", "\n"}

RECURSIVE LStrip(_)
LStrip(s) ==
  IF s # << >> /\ Head(s) \in Whitespace THEN LStrip(Tail(s)) ELSE s

RECURSIVE RStrip(_)
RStrip(s) ==
  IF s # << >> /\ s[Len(s)] \in Whitespace
  THEN RStrip(SubSeq(s, 1, Len(s) - 1))
  ELSE s

\* the bug of not trimming the transcription
StripNothing(s) == s

Strip(s) == RStrip(LStrip(s))

----------------------------------------------------------------------------
(* Paths: os.path.join, `in`, str.replace, os.path.exists *)

\* the directory of the repository: an absolute path with no final slash
BASE_DIR == << "/", "r" >>

\* the literals 'models/' and 'modeles/' of lines 65-66 and 71-72
MODELS == << "m", "o", "d", "e", "l", "s", "/" >>
MODELES == << "m", "o", "d", "e", "l", "e", "s", "/" >>

IsAbs(rel) == rel # << >> /\ rel[1] = "/"

\* os.path.join(base, rel)
Join(base, rel) ==
  IF IsAbs(rel) THEN rel
  ELSE IF base = << >> \/ base[Len(base)] = "/" THEN base \o rel
  ELSE base \o << "/" >> \o rel

\* pat in s, for strings
Contains(s, pat) ==
  \E k \in 0..(Len(s) - Len(pat)) : SubSeq(s, k + 1, k + Len(pat)) = pat

\* s.replace(old, new): every occurrence, from the left, none overlapping
RECURSIVE Replace(_, _, _)
Replace(s, old, new) ==
  IF Len(s) < Len(old) THEN s
  ELSE IF SubSeq(s, 1, Len(old)) = old
       THEN new \o Replace(SubSeq(s, Len(old) + 1, Len(s)), old, new)
       ELSE << Head(s) >> \o Replace(Tail(s), old, new)

Exists(fs, p) == p \in fs

\* the bug of never trying the other spelling of the directory
ResolveAudioPrimaryOnly(fs, rel) == Join(BASE_DIR, rel)

\* process_single_model, lines 61-76: the path handed to transcribe_audio
ResolveAudio(fs, rel) ==
  LET primary == Join(BASE_DIR, rel)
      alt1 == Join(BASE_DIR, Replace(rel, MODELS, MODELES))
      alt2 == Join(BASE_DIR, Replace(rel, MODELES, MODELS))
  IN  IF Exists(fs, primary) THEN primary
      ELSE IF Contains(rel, MODELS)
           THEN (IF Exists(fs, alt1) THEN alt1 ELSE primary)
           ELSE IF Contains(rel, MODELES)
                THEN (IF Exists(fs, alt2) THEN alt2 ELSE primary)
                ELSE primary

----------------------------------------------------------------------------
(* The catalog file: json.dump writes a token sequence, json.load parses it *)

KeyOrder == << "models", "modeles" >>

Keys(obj) == SelectSeq(KeyOrder, LAMBDA k : k \in DOMAIN obj)

RECURSIVE ConcatAll(_)
ConcatAll(ss) == IF ss = << >> THEN << >> ELSE Head(ss) \o ConcatAll(Tail(ss))

Tok(t) == [t |-> t]

DumpEntries(es) == [n \in DOMAIN es |-> [t |-> "entry", e |-> es[n]]]

DumpGroup(g) ==
  << Tok("{") >>
  \o ConcatAll([n \in DOMAIN Keys(g) |->
       LET k == Keys(g)[n] IN
       << [t |-> "key", k |-> k] >>
       \o (IF IsList(g[k])
           THEN << Tok("[") >> \o DumpEntries(g[k].items) \o << Tok("]") >>
           ELSE << Tok("other") >>)])
  \o << Tok("}") >>

\* json.dump(data, f, indent=4, ensure_ascii=False), line 21
Dump(d) ==
  << Tok("{") >>
  \o ConcatAll([n \in DOMAIN Keys(d) |->
       LET k == Keys(d)[n] IN
       << [t |-> "key", k |-> k] >>
       \o (IF IsList(d[k])
           THEN << Tok("[") >>
                \o ConcatAll([m \in DOMAIN d[k].items |-> DumpGroup(d[k].items[m])])
                \o << Tok("]") >>
           ELSE << Tok("other") >>)])
  \o << Tok("}") >>

ParseFail == [ok |-> FALSE]

RECURSIVE ParseEntries(_, _, _)
ParseEntries(toks, p, acc) ==
  IF p > Len(toks) THEN ParseFail
  ELSE IF toks[p].t = "]" THEN [ok |-> TRUE, val |-> JList(acc), pos |-> p + 1]
  ELSE IF toks[p].t = "entry" THEN ParseEntries(toks, p + 1, Append(acc, toks[p].e))
  ELSE ParseFail

RECURSIVE ParseObject(_, _, _)
RECURSIVE ParseMembers(_, _, _, _)
RECURSIVE ParseGroups(_, _, _)

ParseValue(toks, p, level) ==
  IF p > Len(toks) THEN ParseFail
  ELSE IF toks[p].t = "other" THEN [ok |-> TRUE, val |-> JOther, pos |-> p + 1]
  ELSE IF toks[p].t = "["
       THEN (IF level = 1 THEN ParseGroups(toks, p + 1, << >>)
                          ELSE ParseEntries(toks, p + 1, << >>))
       ELSE ParseFail

ParseMembers(toks, p, level, acc) ==
  IF p > Len(toks) THEN ParseFail
  ELSE IF toks[p].t = "}" THEN [ok |-> TRUE, val |-> acc, pos |-> p + 1]
  ELSE IF toks[p].t = "key"
       THEN LET v == ParseValue(toks, p + 1, level)
            IN  IF v.ok
                THEN ParseMembers(toks, v.pos, level, SetKey(acc, toks[p].k, v.val))
                ELSE ParseFail
       ELSE ParseFail

ParseObject(toks, p, level) ==
  IF p > Len(toks) \/ toks[p].t # "{" THEN ParseFail
  ELSE ParseMembers(toks, p + 1, level, EmptyObj)

ParseGroups(toks, p, acc) ==
  IF p > Len(toks) THEN ParseFail
  ELSE IF toks[p].t = "]" THEN [ok |-> TRUE, val |-> JList(acc), pos |-> p + 1]
  ELSE LET g == ParseObject(toks, p, 2)
       IN  IF g.ok THEN ParseGroups(toks, g.pos, Append(acc, g.val)) ELSE ParseFail

\* json.load(f), line 17: the document, or a failure to parse
Load(toks) ==
  LET r == ParseObject(toks, 1, 1)
  IN  IF r.ok /\ r.pos = Len(toks) + 1 THEN r ELSE ParseFail

\* what a reader of the file finds: [ok, val], ok when it is a document
ReadDisk == IF disk.exists THEN Load(disk.content) ELSE ParseFail

----------------------------------------------------------------------------
(* Enumeration of the pending entries, main lines 107-124 *)

Ref(rk, g, mk, e) == [rk |-> rk, g |-> g, mk |-> mk, e |-> e]

EntryAt(d, r) == d[r.rk].items[r.g][r.mk].items[r.e]

HasEntry(d, r) ==
  /\ r.rk \in DOMAIN d /\ IsList(d[r.rk]) /\ r.g \in DOMAIN d[r.rk].items
  /\ r.mk \in DOMAIN d[r.rk].items[r.g]
  /\ IsList(d[r.rk].items[r.g][r.mk])
  /\ r.e \in DOMAIN d[r.rk].items[r.g][r.mk].items

\* the bug of looking under 'models' only
PickKeyPrimaryOnly(obj) == "models"

\* lines 110-112 and 116-118
PickKey(obj) == IF "modeles" \in DOMAIN obj THEN "modeles" ELSE "models"

\* lines 116-124 for one group
GroupTasks(rk, g, group) ==
  LET mk == PickKey(group)
  IN  IF mk \in DOMAIN group /\ IsList(group[mk])
      THEN LET es == group[mk].items
               idx == SelectSeq([n \in DOMAIN es |-> n],
                                LAMBDA n : ~Truthy(es[n], "ref_text"))
           IN  [n \in DOMAIN idx |-> Ref(rk, g, mk, idx[n])]
      ELSE << >>

\* lines 107-124
Enumerate(d) ==
  LET rk == PickKey(d)
  IN  IF rk \in DOMAIN d /\ IsList(d[rk])
      THEN ConcatAll([g \in DOMAIN d[rk].items |-> GroupTasks(rk, g, d[rk].items[g])])
      ELSE << >>

----------------------------------------------------------------------------
(* The catalogs and the environment a run starts from *)

Other(k) == IF k = "models" THEN "modeles" ELSE "models"

Templates ==
  { [name |-> "v1", file |-> MODELS \o << "a" >>, language |-> "es"],
    [name |-> "v2", file |-> MODELS \o << "b" >>, ref_text |-> << >>],
    [name |-> "v3", file |-> MODELES \o << "c" >>],
    [language |-> "fr", file |-> << >>],
    [name |-> "v5"],
    [name |-> "v6", file |-> MODELS \o << "c" >>, ref_text |-> << "o", "k" >>] }

AudioFiles ==
  { Join(BASE_DIR, MODELS \o << "a" >>), Join(BASE_DIR, MODELES \o << "b" >>) }

EntryLists == UNION { [1..n -> Templates] : n \in 0..MaxEntries }

\* the first entry in a group of its own, the others in a second group
Grouped(es) ==
  IF es = << >> THEN << >>
  ELSE IF Len(es) = 1 THEN << es >>
  ELSE << << Head(es) >>, Tail(es) >>

Catalog(rs, gs, mixed, es) ==
  LET gl == Grouped(es)
      group(n) == LET k == IF mixed /\ n > 1 THEN Other(gs) ELSE gs
                  IN  [x \in {k} |-> JList(gl[n])]
  IN  [x \in {rs} |-> JList([n \in DOMAIN gl |-> group(n)])]

\* the spelling of the root key, of the first group's key, and whether the
\* second group is spelt the other way
Layouts ==
  { << "models", "models", FALSE >>, << "modeles", "modeles", FALSE >>,
    << "models", "modeles", TRUE >>, << "modeles", "models", TRUE >> }

Catalogs ==
  { Catalog(l[1], l[2], l[3], es) : l \in Layouts, es \in EntryLists }

RawTexts == { << >>, << " ", "\n" >>, << " ", "h", " ", "i", "\n" >> }

WhisperOutcomes ==
  { [raise |-> TRUE] } \cup { [raise |-> FALSE, raw |-> r] : r \in RawTexts }

NoIntr == [at |-> "none", i |-> 0]

NoPrev ==
  [set |-> FALSE, data |-> EmptyObj, disk |-> [exists |-> FALSE, content |-> << >>],
   faulted |-> FALSE, committed |-> {}]

InitDisks ==
  { [exists |-> TRUE, content |-> Dump(c)] : c \in Catalogs }
  \cup { [exists |-> FALSE, content |-> << >>],
         [exists |-> TRUE, content |-> << >>],
         [exists |-> TRUE, content |-> << Tok("{"), [t |-> "key", k |-> "models"] >>] }

\* the state before main() runs, given the audio files and the catalog file
InitAt(st, fs, d) ==
  /\ pc = "start"
  /\ run = 1
  /\ stable = st
  /\ files = fs
  /\ disk = d
  /\ data = EmptyObj
  /\ tasks = << >>
  /\ i = 0
  /\ updated_count = 0
  /\ audio = << >>
  /\ language = << >>
  /\ text = << >>
  /\ memo = << >>
  /\ orig = EmptyObj
  /\ outcome = << >>
  /\ calls = {}
  /\ committed = {}
  /\ commit_saves = 0
  /\ final_saves = 0
  /\ intr = NoIntr
  /\ faulted = FALSE
  /\ prev = NoPrev

InitWith(st) == \E d \in InitDisks : InitAt(st, AudioFiles, d)

Init == InitWith(FALSE)

\* a capability that returns the same result for the same input
InitRerun == InitWith(TRUE)



----------------------------------------------------------------------------
(* main() and what it calls, one action per step *)

Terminal == {"done", "fatal", "interrupted", "dead"}

\* the statements of the try block, lines 137-149
TryBody == {"iter", "transcribe", "update", "count", "save", "write", "sleep"}

Truncated == [exists |-> TRUE, content |-> << >>]

\* the bug of leaving the loop when an entry fails
AdvanceStopsOnFailure(kind) ==
  /\ outcome' = [outcome EXCEPT ![i] = kind]
  /\ i' = i + 1
  /\ pc' = IF i + 1 > Len(tasks) \/ kind \notin {"ok", "fault"} THEN "done" ELSE "iter"
  /\ audio' = << >>
  /\ language' = << >>
  /\ text' = << >>

\* the bug of trying an entry again when its transcription raised
AdvanceRetriesRaised(kind) ==
  /\ outcome' = [outcome EXCEPT ![i] = IF kind = "raised" THEN @ ELSE kind]
  /\ i' = IF kind = "raised" THEN i ELSE i + 1
  /\ pc' = IF kind # "raised" /\ i + 1 > Len(tasks) THEN "done" ELSE "iter"
  /\ audio' = << >>
  /\ language' = << >>
  /\ text' = << >>

\* the end of one iteration of the loop at line 135
Advance(kind) ==
  /\ outcome' = [outcome EXCEPT ![i] = kind]
  /\ i' = i + 1
  /\ pc' = IF i + 1 > Len(tasks) THEN "done" ELSE "iter"
  /\ audio' = << >>
  /\ language' = << >>
  /\ text' = << >>

\* lines 91-96: the catalog file is looked for and loaded
Start ==
  /\ pc = "start"
  /\ IF ~disk.exists
     THEN pc' = "fatal" /\ UNCHANGED << data, orig >>
     ELSE IF Load(disk.content).ok
          THEN /\ data' = Load(disk.content).val
               /\ orig' = Load(disk.content).val
               /\ pc' = "init_model"
          ELSE pc' = "dead" /\ UNCHANGED << data, orig >>
  /\ UNCHANGED << run, stable, files, disk, tasks, i, updated_count, audio,
                  language, text, memo, outcome, calls, committed,
                  commit_saves, final_saves, intr, faulted, prev >>

\* the bug of saving the catalog when the model cannot be loaded
LoadWhisperSavesOnFailure ==
  /\ pc = "init_model"
  /\ \E ok \in BOOLEAN :
       /\ pc' = IF ok THEN "enumerate" ELSE "fatal"
       /\ disk' = IF ok THEN disk ELSE [exists |-> TRUE, content |-> Dump(data)]
       /\ final_saves' = IF ok THEN final_saves ELSE final_saves + 1
  /\ UNCHANGED << run, stable, files, data, tasks, i, updated_count,
                  audio, language, text, memo, orig, outcome, calls,
                  committed, commit_saves, intr, faulted, prev >>

\* lines 99-105: whisper.load_model returns or raises
LoadWhisper ==
  /\ pc = "init_model"
  /\ \E ok \in BOOLEAN : pc' = IF ok THEN "enumerate" ELSE "fatal"
  /\ UNCHANGED << run, stable, files, disk, data, tasks, i, updated_count,
                  audio, language, text, memo, orig, outcome, calls,
                  committed, commit_saves, final_saves, intr, faulted, prev >>

\* lines 107-134
EnumerateTasks ==
  /\ pc = "enumerate"
  /\ tasks' = Enumerate(data)
  /\ outcome' = [n \in DOMAIN Enumerate(data) |-> "none"]
  /\ updated_count' = 0
  /\ IF Enumerate(data) = << >>
     THEN pc' = "done" /\ i' = i
     ELSE pc' = "iter" /\ i' = 1
  /\ UNCHANGED << run, stable, files, disk, data, audio, language, text,
                  memo, orig, calls, committed, commit_saves, final_saves,
                  intr, faulted, prev >>

\* entry.get('language') as the argument of transcribe_audio
LanguageOf(e) == IF "language" \in DOMAIN e THEN << e.language >> ELSE << >>

\* lines 137-138, process_single_model lines 48-82, transcribe_audio 27-29
ProcessEntry ==
  /\ pc = "iter"
  /\ LET e == EntryAt(data, tasks[i])
     IN  IF Truthy(e, "ref_text")
         THEN Advance("skipped") /\ calls' = calls
         ELSE IF ~Truthy(e, "file")
         THEN Advance("nofile") /\ calls' = calls
         ELSE LET p == ResolveAudio(files, e.file)
              IN  /\ calls' = calls \cup {tasks[i]}
                  /\ IF ~Exists(files, p)
                     THEN Advance("missing")
                     ELSE /\ pc' = "transcribe"
                          /\ audio' = p
                          /\ language' = LanguageOf(e)
                          /\ UNCHANGED << i, text, outcome >>
  /\ UNCHANGED << run, stable, files, disk, data, tasks, updated_count, memo,
                  orig, committed, commit_saves, final_saves, intr, faulted,
                  prev >>

\* transcribe_audio lines 37-42, process_single_model 84-88, main 139
Transcribe ==
  /\ pc = "transcribe"
  /\ \E o \in WhisperOutcomes :
       LET key == << audio, language >>
       IN  /\ (stable /\ key \in DOMAIN memo) => o = memo[key]
           /\ memo' = IF stable THEN SetKey(memo, key, o) ELSE memo
           /\ IF o.raise
              THEN Advance("raised")
              ELSE IF Strip(o.raw) = << >>
              THEN Advance("empty")
              ELSE /\ text' = Strip(o.raw)
                   /\ pc' = "update"
                   /\ UNCHANGED << i, audio, language, outcome >>
  /\ UNCHANGED << run, stable, files, disk, data, tasks, updated_count, orig,
                  calls, committed, commit_saves, final_saves, intr, faulted,
                  prev >>

\* model['ref_text'] = text through the reference r
\* the bug of replacing the entry by one that has a ref_text only
AssignReplacesEntry(d, r, t) ==
  [d EXCEPT ![r.rk].items[r.g][r.mk].items[r.e] = [x \in {"ref_text"} |-> t]]

\* model['ref_text'] = text
Assign(d, r, t) ==
  [d EXCEPT ![r.rk].items[r.g][r.mk].items[r.e] = SetKey(@, "ref_text", t)]

\* line 140
SetRefText ==
  /\ pc = "update"
  /\ data' = Assign(data, tasks[i], text)
  /\ pc' = "count"
  /\ UNCHANGED << run, stable, files, disk, tasks, i, updated_count, audio,
                  language, text, memo, orig, outcome, calls, committed,
                  commit_saves, final_saves, intr, faulted, prev >>

\* line 141
Count ==
  /\ pc = "count"
  /\ updated_count' = updated_count + 1
  /\ pc' = "save"
  /\ UNCHANGED << run, stable, files, disk, data, tasks, i, audio, language,
                  text, memo, orig, outcome, calls, committed, commit_saves,
                  final_saves, intr, faulted, prev >>

\* open(path, 'w'), line 20: the file is cut to no bytes
OpenForWrite(d) == Truncated

\* lines 145 and 20
SaveOpen ==
  /\ pc = "save"
  /\ commit_saves' = commit_saves + 1
  /\ disk' = OpenForWrite(disk)
  /\ pc' = "write"
  /\ UNCHANGED << run, stable, files, data, tasks, i, updated_count, audio,
                  language, text, memo, orig, outcome, calls, committed,
                  final_saves, intr, faulted, prev >>

\* the part of the document a buffer flush in the middle of json.dump leaves
Cuts(toks) == { k \in 1..(Len(toks) - 1) : toks[k].t = "entry" }

\* line 21, in the middle: the buffer is flushed once before the end
SaveFlushPart ==
  /\ pc \in {"write", "intr_write"}
  /\ disk.content = << >>
  /\ \E k \in Cuts(Dump(data)) :
       disk' = [exists |-> TRUE, content |-> SubSeq(Dump(data), 1, k)]
  /\ UNCHANGED << pc, run, stable, files, data, tasks, i, updated_count,
                  audio, language, text, memo, orig, outcome, calls,
                  committed, commit_saves, final_saves, intr, faulted, prev >>

\* the bug of writing the loaded catalog with the text of the current entry only
WrittenOnlyCurrent(d) ==
  [exists |-> TRUE, content |-> Dump(Assign(orig, tasks[i], text))]

\* the bug of writing the catalog as it was loaded
WrittenStale(d) == [exists |-> TRUE, content |-> Dump(orig)]

\* what the file holds when save_models_json returns
Written(d) == [exists |-> TRUE, content |-> Dump(d)]

\* lines 21-23 to the end, and the return to line 149
SaveWrite ==
  /\ pc = "write"
  /\ disk' = Written(data)
  /\ committed' = committed \cup {tasks[i]}
  /\ pc' = "sleep"
  /\ UNCHANGED << run, stable, files, data, tasks, i, updated_count, audio,
                  language, text, memo, orig, outcome, calls, commit_saves,
                  final_saves, intr, faulted, prev >>

\* line 145 raises (open, write, flush or fsync fails): line 154 catches it
SaveFails ==
  /\ \/ pc = "save" /\ commit_saves' = commit_saves + 1
     \/ pc = "write" /\ commit_saves' = commit_saves
  /\ faulted' = TRUE
  /\ pc' = "log_error"
  /\ UNCHANGED << run, stable, files, disk, data, tasks, i, updated_count,
                  audio, language, text, memo, orig, outcome, calls,
                  committed, final_saves, intr, prev >>

\* the bug of saving once more at the end of the iteration
SleepSavesAgain ==
  /\ pc = "sleep"
  /\ Advance("ok")
  /\ commit_saves' = commit_saves + 1
  /\ UNCHANGED << run, stable, files, disk, data, tasks, updated_count, memo,
                  orig, calls, committed, final_saves, intr, faulted, prev >>

\* line 149
Sleep ==
  /\ pc = "sleep"
  /\ Advance("ok")
  /\ UNCHANGED << run, stable, files, disk, data, tasks, updated_count, memo,
                  orig, calls, committed, commit_saves, final_saves, intr,
                  faulted, prev >>

\* lines 154-155
LogError ==
  /\ pc = "log_error"
  /\ Advance("fault")
  /\ UNCHANGED << run, stable, files, disk, data, tasks, updated_count, memo,
                  orig, calls, committed, commit_saves, final_saves, intr,
                  faulted, prev >>

\* KeyboardInterrupt raised in the try block: lines 150-151
Interrupt ==
  /\ pc \in TryBody
  /\ intr' = [at |-> pc, i |-> i]
  /\ pc' = "intr_save"
  /\ UNCHANGED << run, stable, files, disk, data, tasks, i, updated_count,
                  audio, language, text, memo, orig, outcome, calls,
                  committed, commit_saves, final_saves, faulted, prev >>

\* lines 152 and 20
FinalSaveOpen ==
  /\ pc = "intr_save"
  /\ final_saves' = final_saves + 1
  /\ disk' = OpenForWrite(disk)
  /\ pc' = "intr_write"
  /\ UNCHANGED << run, stable, files, data, tasks, i, updated_count, audio,
                  language, text, memo, orig, outcome, calls, committed,
                  commit_saves, intr, faulted, prev >>

\* the bug of going on with the loop after the final save: no return
FinalSaveWriteNoReturn ==
  /\ pc = "intr_write"
  /\ disk' = Written(data)
  /\ Advance("fault")
  /\ UNCHANGED << run, stable, files, data, tasks, updated_count, memo, orig,
                  calls, committed, commit_saves, final_saves, intr, faulted,
                  prev >>

\* lines 21-23 and 153
FinalSaveWrite ==
  /\ pc = "intr_write"
  /\ disk' = Written(data)
  /\ pc' = "interrupted"
  /\ UNCHANGED << run, stable, files, data, tasks, i, updated_count, audio,
                  language, text, memo, orig, outcome, calls, committed,
                  commit_saves, final_saves, intr, faulted, prev >>

\* The process dies: it is killed, or an exception nothing catches ends it
\* (json.load at line 96, save_models_json at line 152, a KeyboardInterrupt
\* outside the try block). Its memory is gone, the file stays as it is;
\* tasks is kept as the record of what the worklist was.
Crash ==
  /\ pc \notin Terminal
  /\ pc' = "dead"
  /\ data' = EmptyObj
  /\ i' = 0
  /\ updated_count' = 0
  /\ audio' = << >>
  /\ language' = << >>
  /\ text' = << >>
  /\ UNCHANGED << run, stable, files, disk, tasks, memo, orig, outcome, calls,
                  committed, commit_saves, final_saves, intr, faulted, prev >>

\* The script is started again after a run that ended at line 157 or 131
Rerun ==
  /\ pc = "done"
  /\ run = 1
  /\ run' = 2
  /\ prev' = [set |-> TRUE, data |-> data, disk |-> disk, faulted |-> faulted,
              committed |-> committed]
  /\ pc' = "start"
  /\ data' = EmptyObj
  /\ tasks' = << >>
  /\ i' = 0
  /\ updated_count' = 0
  /\ audio' = << >>
  /\ language' = << >>
  /\ text' = << >>
  /\ orig' = EmptyObj
  /\ outcome' = << >>
  /\ calls' = {}
  /\ committed' = {}
  /\ commit_saves' = 0
  /\ final_saves' = 0
  /\ intr' = NoIntr
  /\ faulted' = FALSE
  /\ UNCHANGED << stable, files, disk, memo >>

Next ==
  \/ Start
  \/ LoadWhisper
  \/ EnumerateTasks
  \/ ProcessEntry
  \/ Transcribe
  \/ SetRefText
  \/ Count
  \/ SaveOpen
  \/ SaveFlushPart
  \/ SaveWrite
  \/ SaveFails
  \/ Sleep
  \/ LogError
  \/ Interrupt
  \/ FinalSaveOpen
  \/ FinalSaveWrite
  \/ Crash

Spec == Init /\ [][Next]_vars

NextRerun == Next \/ Rerun

SpecRerun == InitRerun /\ [][NextRerun]_vars

\* line 152 raises: nothing catches it, the process ends with the exception
FinalSaveFails == pc \in {"intr_save", "intr_write"} /\ Crash

\* the steps main() takes by itself once the catalog is loaded: every call
\* returns or raises
Steps ==
  \/ LoadWhisper
  \/ EnumerateTasks
  \/ ProcessEntry
  \/ Transcribe
  \/ SetRefText
  \/ Count
  \/ SaveOpen
  \/ SaveFails
  \/ SaveWrite
  \/ Sleep
  \/ LogError
  \/ FinalSaveOpen
  \/ FinalSaveFails
  \/ FinalSaveWrite

\* the load, the steps after it, and what may or may not happen on the way:
\* a flush in the middle of a write, an interruption
NextLive == Start \/ Steps \/ SaveFlushPart \/ Interrupt

\* a run that nothing kills: once the catalog is loaded main() goes on as
\* long as it has a step to take
SpecLive == Init /\ [][NextLive]_vars /\ WF_vars(Steps)

\* declared paths: one spelling, the other, none, both in either order, the
\* spelling inside a longer directory name, the spelling twice, an absolute path
DeclaredPaths ==
  { MODELS \o << "a" >>, MODELES \o << "a" >>, << "a" >>,
    MODELS \o MODELES \o << "a" >>, MODELES \o MODELS \o << "a" >>,
    << "x" >> \o MODELS \o << "a" >>, MODELS \o MODELS \o << "a" >>,
    << "/" >> \o MODELS \o << "a" >> }

\* the locations lines 61-72 can look at for a declared path
Candidates(rel) ==
  { Join(BASE_DIR, rel), Join(BASE_DIR, Replace(rel, MODELS, MODELES)),
    Join(BASE_DIR, Replace(rel, MODELES, MODELS)) }

\* a catalog of one pending entry with the declared path
OneEntry(rel) == Catalog("models", "models", FALSE, << [name |-> "v", file |-> rel] >>)

InitResolve ==
  \E rel \in DeclaredPaths : \E fs \in SUBSET Candidates(rel) :
    InitAt(FALSE, fs, [exists |-> TRUE, content |-> Dump(OneEntry(rel))])

\* a run over every declared path and every set of existing audio files
SpecResolve == InitResolve /\ [][Next]_vars

----------------------------------------------------------------------------
(* Vocabulary of the properties *)

\* every entry of a catalog, under either spelling at either level
AllRefs(d) ==
  UNION { UNION { UNION { { Ref(rk, g, mk, e) : e \in DOMAIN d[rk].items[g][mk].items }
                          : mk \in { k \in DOMAIN d[rk].items[g] : IsList(d[rk].items[g][k]) } }
                  : g \in DOMAIN d[rk].items }
          : rk \in { k \in DOMAIN d : IsList(d[k]) } }

\* the process holds a loaded catalog
InMemory == data # EmptyObj

\* the entry r has a non-empty ref_text in the catalog d
HasText(d, r) ==
  /\ HasEntry(d, r)
  /\ "ref_text" \in DOMAIN EntryAt(d, r)
  /\ EntryAt(d, r).ref_text # << >>

MemText(r) == InMemory /\ HasText(data, r)

\* the reading rd of the file is a complete document with a ref_text for r
DiskText(rd, r) == rd.ok /\ HasText(rd.val, r)

TaskIdx == DOMAIN tasks

\* C1: once the commit save of an entry has returned, every later state of
\* the file holds that entry's ref_text, at every step of a later save and
\* if the process dies there.
C1_CommittedStaysOnDisk ==
  LET rd == ReadDisk IN \A r \in committed : DiskText(rd, r)

\* C2: when a commit save returns, the file equals the in-memory catalog and
\* holds the ref_text of exactly the worklist entries whose own commit save
\* has returned: this entry and those committed earlier, no other.
C2_CommitPoint ==
  pc = "sleep" =>
    LET rd == ReadDisk
    IN  /\ rd.ok
        /\ rd.val = data
        /\ \A n \in TaskIdx : DiskText(rd, tasks[n]) <=> tasks[n] \in committed

FailKinds == {"nofile", "missing", "raised", "empty"}

\* C3: an entry whose handling failed (no file, audio missing, transcription
\* raised, empty output) has no ref_text in memory or on disk; entries are
\* handled in order without a gap, so at the end (Completed) every entry was
\* handled, and every entry whose transcription gave text has it in memory.
C3_PerEntryIsolation ==
  /\ LET rd == ReadDisk
     IN  \A n \in DOMAIN outcome :
           outcome[n] \in FailKinds => ~MemText(tasks[n]) /\ ~DiskText(rd, tasks[n])
  /\ (pc \in TryBody \cup {"log_error"}) =>
       /\ i \in TaskIdx
       /\ \A n \in TaskIdx : (outcome[n] # "none") <=> n < i
  /\ pc = "done" =>
       \A n \in TaskIdx :
         /\ outcome[n] # "none"
         /\ outcome[n] \in {"ok", "fault"} => MemText(tasks[n])
         /\ outcome[n] = "ok" => tasks[n] \in committed

C3_Witness ==
  /\ pc = "done"
  /\ Len(tasks) = 2
  /\ outcome[1] = "missing"
  /\ outcome[2] = "ok"
  /\ DiskText(ReadDisk, tasks[2])
  /\ ~DiskText(ReadDisk, tasks[1])

\* entries that had a non-empty ref_text when the catalog was loaded
Satisfied == { r \in AllRefs(orig) : HasText(orig, r) }

\* C4: an entry with a non-empty ref_text at load is never handed to the
\* transcription step and keeps that ref_text in memory and in every
\* document the run has written.
C4_SatisfiedUntouched ==
  LET rd == ReadDisk
  IN  \A r \in Satisfied :
        /\ r \notin calls
        /\ r \notin Range(tasks)
        /\ InMemory => EntryAt(data, r) = EntryAt(orig, r)
        /\ rd.ok => HasEntry(rd.val, r) /\ EntryAt(rd.val, r) = EntryAt(orig, r)

C4_Witness ==
  /\ pc = "done"
  /\ Satisfied # {}
  /\ committed # {}
  /\ ReadDisk.ok
  /\ ReadDisk.val = data
  /\ data # orig

\* what a reader of the file found at the end of the first run
ReadPrev == IF prev.disk.exists THEN Load(prev.disk.content) ELSE ParseFail

AfterInterrupt == {"intr_save", "intr_write", "interrupted"}

\* C6: an interruption that arrives at any statement of the try block of
\* entry i stops the walk (i stays, no later entry is handed to
\* transcription or changed), makes one final save, and the run ends
\* Interrupted with the file equal to the in-memory catalog.
C6_Interruption ==
  /\ final_saves <= 1
  /\ intr.at # "none" => pc \in AfterInterrupt \cup {"dead"}
  /\ pc \in AfterInterrupt =>
       /\ intr.at \in TryBody
       /\ i = intr.i
       /\ \A n \in TaskIdx :
            n > i => /\ tasks[n] \notin calls
                     /\ EntryAt(data, tasks[n]) = EntryAt(orig, tasks[n])
                     /\ outcome[n] = "none"
  /\ pc = "interrupted" =>
       /\ final_saves = 1
       /\ ReadDisk.ok
       /\ ReadDisk.val = data

C6_Witness ==
  /\ pc = "interrupted"
  /\ intr.at = "write"
  /\ intr.i = 1
  /\ Len(tasks) = 2
  /\ DiskText(ReadDisk, tasks[1])

\* C7 as stated: after an interruption that arrived before the commit save
\* of entry i had started, the file holds the ref_text of the entries
\* committed before and none for entry i.
C7_InFlightDiscarded ==
  (pc = "interrupted" /\ intr.at \in {"iter", "transcribe", "update", "count", "save"}) =>
    LET rd == ReadDisk
    IN  /\ \A r \in committed : DiskText(rd, r)
        /\ ~DiskText(rd, tasks[intr.i])

\* C7 amended: that holds when the interruption arrived before line 140 set
\* the entry's ref_text in memory; when it arrived after line 140, the final
\* save writes entry i's ref_text to the file.
C7_InFlightDiscardedBeforeUpdate ==
  pc = "interrupted" =>
    LET rd == ReadDisk
    IN  /\ \A r \in committed : DiskText(rd, r)
        /\ intr.at \in {"iter", "transcribe", "update"} => ~DiskText(rd, tasks[intr.i])
        /\ intr.at \in {"count", "save", "write", "sleep"} => DiskText(rd, tasks[intr.i])

C7_Witness ==
  /\ pc = "interrupted"
  /\ intr.at = "update"
  /\ intr.i = 2
  /\ committed # {}
  /\ ~DiskText(ReadDisk, tasks[2])

\* C8: once the run has loaded the catalog, the file is a complete document
\* in every state, also at every step of save_models_json.
C8_NoPartialWrite == orig # EmptyObj => ReadDisk.ok

\* a text that is empty after trimming
Blank(s) == \A n \in DOMAIN s : s[n] \in Whitespace

\* a text that starts and ends with something other than white space
Trimmed(s) == s # << >> /\ s[1] \notin Whitespace /\ s[Len(s)] \notin Whitespace

\* C9: a transcription that is empty after trimming is never written and
\* makes no save; every ref_text the run sets, in memory or in a written
\* document, is non-empty after trimming; there are no more commit saves
\* than entries that were given a text.
C9_NonEmptyRefText ==
  /\ pc \in {"update", "count", "save", "write", "sleep"} =>
       Trimmed(text)
  /\ LET rd == ReadDisk
     IN  \A n \in TaskIdx :
           /\ MemText(tasks[n]) => ~Blank(EntryAt(data, tasks[n]).ref_text)
           /\ DiskText(rd, tasks[n]) => ~Blank(EntryAt(rd.val, tasks[n]).ref_text)
  /\ \A n \in DOMAIN outcome :
       outcome[n] = "empty" =>
         /\ tasks[n] \notin committed
         /\ ~MemText(tasks[n])
         /\ InMemory => EntryAt(data, tasks[n]) = EntryAt(orig, tasks[n])
  /\ InMemory => commit_saves <= Cardinality({ n \in TaskIdx : MemText(tasks[n]) })

C9_Witness ==
  /\ pc = "done"
  /\ Len(tasks) = 2
  /\ outcome[1] = "ok"
  /\ outcome[2] = "empty"
  /\ commit_saves = 1

\* a catalog in which every object carries one spelling only
SingleSpelled(d) ==
  /\ Cardinality(DOMAIN d) = 1
  /\ \A rk \in DOMAIN d :
       /\ IsList(d[rk])
       /\ \A g \in DOMAIN d[rk].items :
            /\ Cardinality(DOMAIN d[rk].items[g]) = 1
            /\ \A mk \in DOMAIN d[rk].items[g] : IsList(d[rk].items[g][mk])

\* the same catalog written with one spelling at both levels
Respelled(d, k) ==
  LET rk == CHOOSE x \in DOMAIN d : TRUE
      regroup(group) == LET mk == CHOOSE x \in DOMAIN group : TRUE
                        IN  [x \in {k} |-> group[mk]]
  IN  [x \in {k} |->
         JList([g \in DOMAIN d[rk].items |-> regroup(d[rk].items[g])])]

\* a worklist as the sequence of its entries with their places
Places(d, ts) ==
  [n \in DOMAIN ts |-> [g |-> ts[n].g, e |-> ts[n].e, entry |-> EntryAt(d, ts[n])]]

Enumerated == pc \in TryBody \cup {"log_error", "done"} \cup AfterInterrupt

\* C10: for a catalog whose objects carry one spelling each, in any mix
\* across the root and the groups, the worklist is the same sequence of
\* pending entries as for the catalog written with 'models' throughout, and
\* as for the catalog written with 'modeles' throughout.
C10_SynonymsEnumerateAlike ==
  (Enumerated /\ SingleSpelled(orig)) =>
    /\ Places(orig, tasks)
         = Places(Respelled(orig, "models"), Enumerate(Respelled(orig, "models")))
    /\ Places(orig, tasks)
         = Places(Respelled(orig, "modeles"), Enumerate(Respelled(orig, "modeles")))
    /\ \A r \in AllRefs(orig) : ~HasText(orig, r) => r \in Range(tasks)

C10_Witness ==
  /\ pc = "iter"
  /\ i = 1
  /\ Len(tasks) = 2
  /\ DOMAIN orig = {"modeles"}
  /\ tasks[1].mk = "models"
  /\ tasks[2].mk = "modeles"

\* lists of at most one entry
ShortLists == { << >> } \cup { << t >> : t \in Templates }

\* catalogs in which the root, or a group, carries both spellings at once, and
\* one whose 'modeles' is not a list
BothCatalogs ==
  { [k \in {"models", "modeles"} |->
       IF k = "models" THEN JList(<< [x \in {"models"} |-> JList(a)] >>)
                       ELSE JList(<< [x \in {"modeles"} |-> JList(b)] >>)]
    : a \in ShortLists, b \in ShortLists }
  \cup
  { [x \in {"models"} |->
       JList(<< [k \in {"models", "modeles"} |->
                   IF k = "models" THEN JList(a) ELSE JList(b)] >>)]
    : a \in ShortLists, b \in ShortLists }
  \cup
  { [k \in {"models", "modeles"} |->
       IF k = "models" THEN JList(<< [x \in {"models"} |-> JList(a)] >>) ELSE JOther]
    : a \in ShortLists }

InitBoth ==
  \E c \in BothCatalogs : InitAt(FALSE, AudioFiles, [exists |-> TRUE, content |-> Dump(c)])

\* a run over catalogs that carry both spellings in one object
SpecBoth == InitBoth /\ [][Next]_vars

----------------------------------------------------------------------------
(* C11: the audio path handed to transcription *)

\* the declared path of the one entry of a SpecResolve run
Declared == EntryAt(orig, tasks[1]).file

PrimaryPath == Join(BASE_DIR, Declared)

ToModeles == Join(BASE_DIR, Replace(Declared, MODELS, MODELES))

ToModels == Join(BASE_DIR, Replace(Declared, MODELES, MODELS))

\* the entry was handed to transcription with path p
HandedTo(p) ==
  /\ pc = "transcribe" => audio = p
  /\ outcome[1] # "missing"

Resolving == tasks # << >> /\ pc \notin {"iter", "dead"}

\* C11 as stated: the primary location is handed to transcription when it
\* exists; otherwise, when the declared path contains 'models/' (respectively
\* 'modeles/') and the path with that spelling replaced by the other exists,
\* the substituted location is handed to transcription.
C11_FallbackEitherWay ==
  Resolving =>
    /\ PrimaryPath \in files => HandedTo(PrimaryPath)
    /\ PrimaryPath \notin files /\ Contains(Declared, MODELS) /\ ToModeles \in files
         => HandedTo(ToModeles)
    /\ PrimaryPath \notin files /\ Contains(Declared, MODELES) /\ ToModels \in files
         => HandedTo(ToModels)

\* C11, amended: the primary location is handed to transcription when it
\* exists; otherwise, when the declared path contains 'models/' and the path
\* with 'models/' replaced by 'modeles/' exists, the substituted location is;
\* otherwise, when the declared path contains 'modeles/' and not 'models/' and
\* the path with 'modeles/' replaced by 'models/' exists, that location is.
C11_FallbackModelsFirst ==
  Resolving =>
    /\ PrimaryPath \in files => HandedTo(PrimaryPath)
    /\ PrimaryPath \notin files /\ Contains(Declared, MODELS) /\ ToModeles \in files
         => HandedTo(ToModeles)
    /\ PrimaryPath \notin files /\ Contains(Declared, MODELES)
         /\ ~Contains(Declared, MODELS) /\ ToModels \in files
         => HandedTo(ToModels)

\* a transcription call on the substituted location of a 'modeles/' path
C11_Witness ==
  /\ pc = "transcribe"
  /\ PrimaryPath \notin files
  /\ Contains(Declared, MODELES)
  /\ audio = ToModels
  /\ audio # PrimaryPath

----------------------------------------------------------------------------
(* C12: a run that fails before the worklist is built *)

\* the catalog file was loaded
Loaded == orig # EmptyObj

\* the run ended at line 93 or 105, or line 96 raised
StartupFailed == pc = "fatal" \/ (pc = "dead" /\ ~Loaded)

\* C12: when the catalog file is missing, the load of the catalog fails, or
\* the transcription model cannot be initialised, the run ends before the
\* worklist is built: no transcription call was made, no entry was changed and
\* the catalog file was not written; a run gets past the load only with a
\* loaded catalog.
C12_StartupFailureTouchesNothing ==
  /\ pc \notin {"start", "fatal", "dead"} => Loaded
  /\ StartupFailed =>
       /\ tasks = << >> /\ outcome = << >> /\ i = 0
       /\ calls = {} /\ memo = << >>
       /\ data = orig
       /\ commit_saves = 0 /\ final_saves = 0
       /\ disk \in InitDisks
       /\ Loaded => disk = [exists |-> TRUE, content |-> Dump(orig)]

\* the model could not be initialised for a catalog with pending entries
C12_Witness == pc = "fatal" /\ Loaded /\ Enumerate(orig) # << >>

----------------------------------------------------------------------------
(* C13: the worklist of a catalog that carries both spellings *)

KeyIdx(k) == IF k = "models" THEN 1 ELSE 2

\* r1 comes before r2 in the document
DocBefore(r1, r2) ==
  \/ KeyIdx(r1.rk) < KeyIdx(r2.rk)
  \/ r1.rk = r2.rk /\ r1.g < r2.g
  \/ r1.rk = r2.rk /\ r1.g = r2.g /\ KeyIdx(r1.mk) < KeyIdx(r2.mk)
  \/ r1.rk = r2.rk /\ r1.g = r2.g /\ r1.mk = r2.mk /\ r1.e < r2.e

\* C13: the worklist holds every entry whose ref_text is absent or empty,
\* under either spelling of the root key and of the group key, in document
\* order, also when the root or a group carries both spellings at once.
C13_WorklistHasEveryPendingEntry ==
  Enumerated =>
    /\ \A r \in AllRefs(orig) : ~HasText(orig, r) => r \in Range(tasks)
    /\ \A n \in TaskIdx : HasEntry(orig, tasks[n]) /\ ~HasText(orig, tasks[n])
    /\ \A m, n \in TaskIdx : m < n => DocBefore(tasks[m], tasks[n])

----------------------------------------------------------------------------
(* C14: a fault while an entry is handled *)

\* C14: after a fault while entry n was handled, the commit save raising
\* included, the ref_text of entry n is unset in memory; and at the start of
\* every iteration the catalog in memory is the catalog in the file.
C14_FaultLeavesEntryUnset ==
  /\ \A n \in DOMAIN outcome :
       (InMemory /\ outcome[n] = "fault") => ~MemText(tasks[n])
  /\ pc = "iter" => LET rd == ReadDisk IN rd.ok /\ rd.val = data

----------------------------------------------------------------------------
(* C15: an interruption while a transcription call is in progress *)

\* C15 as stated: an interruption is acted on between entries only; the run
\* never leaves a transcription call in progress for the interruption
\* handler, the call first returns or fails.
C15_InterruptWaitsForCall ==
  [][pc = "transcribe" => pc' \notin AfterInterrupt]_vars

\* C15, amended: an interruption is acted on at any statement of the try
\* block; one that arrives while the transcription call of entry n is in
\* progress ends that call: entry n gets no outcome and no ref_text, it is as
\* it was loaded, and the final save stores the catalog in memory, without a
\* ref_text for entry n.
C15_InterruptAbortsCall ==
  /\ intr.at \in TryBody \cup {"none"}
  /\ (pc \in AfterInterrupt /\ intr.at = "transcribe") =>
       /\ i = intr.i
       /\ outcome[intr.i] = "none"
       /\ ~MemText(tasks[intr.i])
       /\ EntryAt(data, tasks[intr.i]) = EntryAt(orig, tasks[intr.i])
       /\ tasks[intr.i] \notin committed
       /\ pc = "interrupted" =>
            LET rd == ReadDisk
            IN  rd.ok /\ rd.val = data /\ ~DiskText(rd, tasks[intr.i])

\* the run was interrupted in the call for its second entry, after the first
\* was committed
C15_Witness ==
  /\ pc = "interrupted"
  /\ intr.at = "transcribe"
  /\ intr.i = 2
  /\ tasks[1] \in committed

----------------------------------------------------------------------------
(* C16: the order of the commits *)

\* entry n was given a ref_text by this run
Acquired(n) == outcome[n] \in {"ok", "fault"}

\* C16: entries are handled one at a time in worklist order, and for entries
\* m before n that both acquire a ref_text, no complete document in the file
\* holds the ref_text of n without the ref_text of m.
C16_CommitsInWorklistOrder ==
  /\ pc # "dead" =>
       /\ \A n \in DOMAIN outcome : (outcome[n] # "none") <=> (n < i)
       /\ \A n \in TaskIdx : MemText(tasks[n]) => n <= i
  /\ LET rd == ReadDisk
     IN  \A n \in TaskIdx :
           DiskText(rd, tasks[n]) =>
             \A m \in 1..(n - 1) : Acquired(m) => DiskText(rd, tasks[m])

\* the commit save of the first entry failed and the save of the second
\* wrote both texts
C16_Witness ==
  /\ Len(tasks) = 2
  /\ outcome[1] = "fault"
  /\ pc = "sleep"
  /\ LET rd == ReadDisk IN DiskText(rd, tasks[1]) /\ DiskText(rd, tasks[2])

----------------------------------------------------------------------------
(* C17: the number of saves of a run that is not interrupted *)

\* the save of the current entry has been called
SaveCalled == pc \in {"write", "sleep", "log_error"}

\* line 140 has set the ref_text of the current entry
AfterLine140 == {"count", "save", "write", "sleep", "log_error"}

\* C17: in a run without interruption save_models_json is called once for
\* each entry whose transcription returned a non-empty text and never for an
\* entry that failed, so the number of saves is the number of entries that
\* acquired a ref_text; a run in which every entry fails leaves the file as
\* it was.
C17_OneSavePerAcquiredEntry ==
  (intr.at = "none" /\ pc # "dead") =>
    /\ final_saves = 0
    /\ commit_saves = Cardinality({ n \in DOMAIN outcome : Acquired(n) })
                        + (IF SaveCalled THEN 1 ELSE 0)
    /\ \A n \in DOMAIN outcome :
         MemText(tasks[n]) <=> (Acquired(n) \/ (n = i /\ pc \in AfterLine140))
    /\ (\A n \in DOMAIN outcome : ~Acquired(n) /\ (n = i => ~SaveCalled)) =>
         /\ commit_saves = 0
         /\ disk \in InitDisks
         /\ Loaded => disk = [exists |-> TRUE, content |-> Dump(orig)]

\* a complete run in which the first entry failed and the second was saved
C17_Witness ==
  /\ pc = "done"
  /\ intr.at = "none"
  /\ outcome = << "raised", "ok" >>
  /\ commit_saves = 1

\* a complete run in which every entry failed
C17_WitnessAllFail ==
  /\ pc = "done"
  /\ outcome = << "raised", "empty" >>
  /\ disk = [exists |-> TRUE, content |-> Dump(orig)]

----------------------------------------------------------------------------
(* C18: what a run leaves alone *)

WithoutRefText(e) == [k \in DOMAIN e \ {"ref_text"} |-> e[k]]

\* the catalog d with the ref_text of every entry taken out
Erased(d) ==
  [rk \in DOMAIN d |->
     IF IsList(d[rk])
     THEN JList([g \in DOMAIN d[rk].items |->
            [mk \in DOMAIN d[rk].items[g] |->
               IF IsList(d[rk].items[g][mk])
               THEN JList([e \in DOMAIN d[rk].items[g][mk].items |->
                             WithoutRefText(d[rk].items[g][mk].items[e])])
               ELSE d[rk].items[g][mk]]])
     ELSE d[rk]]

\* d is the loaded catalog but for entries that went from no text to a text
OnlyRefTextAdded(d) ==
  /\ Erased(d) = Erased(orig)
  /\ \A r \in AllRefs(orig) :
       \/ EntryAt(d, r) = EntryAt(orig, r)
       \/ ~HasText(orig, r) /\ HasText(d, r)

\* a step leaves every ref_text that is set in memory as it is
RefTextKept ==
  \A r \in AllRefs(orig) :
    (MemText(r) /\ data' # EmptyObj) => EntryAt(data', r) = EntryAt(data, r)

\* C18: the name, file and language of every entry, and the groups and
\* entries and their order, are in every catalog in memory and in every
\* saved document as they were loaded; a ref_text is only ever set on an
\* entry that had none or an empty one, to a non-empty text, and once set
\* it does not change for the rest of the run.
C18_OnlyRefTextChanges ==
  /\ [](/\ InMemory => OnlyRefTextAdded(data)
        /\ LET rd == ReadDisk IN (Loaded /\ rd.ok) => OnlyRefTextAdded(rd.val))
  /\ [][RefTextKept]_vars

\* a complete run that gave a text to an entry with a language, next to an
\* entry it could not transcribe
C18_Witness ==
  /\ pc = "done"
  /\ Len(tasks) = 2
  /\ outcome[1] = "ok"
  /\ outcome[2] \in FailKinds
  /\ "language" \in DOMAIN EntryAt(data, tasks[1])
  /\ LET rd == ReadDisk IN rd.ok /\ rd.val = data /\ data # orig

----------------------------------------------------------------------------
(* C19: termination *)

\* the index only moves forward, one entry at a time, and an outcome, once
\* recorded, stays
ForwardOnly ==
  pc' # "dead" =>
    /\ i' \in {i, i + 1}
    /\ (pc' = "iter" /\ pc # "iter") => i' = i + 1
    /\ (pc = "iter" /\ pc' # "iter") => (i' = i \/ pc' = "done")
    /\ \A n \in DOMAIN outcome : outcome[n] # "none" => outcome'[n] = outcome[n]

\* line 157 is reached with every entry of the worklist handled
DoneHandledAll ==
  pc = "done" =>
    /\ \A n \in DOMAIN outcome : outcome[n] # "none"
    /\ tasks # << >> => i = Len(tasks) + 1

\* C19 as stated: a run that has loaded the catalog reaches Completed or
\* Interrupted; it handles each entry of the worklist at most once and never
\* goes back to an earlier index; Completed is reached only after every entry
\* was handled.
C19_LoadedRunCompletesOrIsInterrupted ==
  /\ Loaded ~> (pc \in {"done", "interrupted"})
  /\ [][ForwardOnly]_vars
  /\ []DoneHandledAll

\* C19, amended: a run that has loaded the catalog and initialised the model
\* reaches Completed or Interrupted, or ends with the exception the final save
\* of an interrupted run raised; it handles each entry of the worklist at
\* most once and never goes back to an earlier index; Completed is reached
\* only after every entry was handled.
C19_RunTerminates ==
  /\ (pc = "enumerate")
       ~> (pc \in {"done", "interrupted"} \/ (pc = "dead" /\ intr.at # "none"))
  /\ [][ForwardOnly]_vars
  /\ []DoneHandledAll

\* a complete run over two entries, the first of which raised
C19_Witness ==
  /\ pc = "done"
  /\ Len(tasks) = 2
  /\ i = 3
  /\ outcome[1] = "raised"
  /\ outcome[2] # "none"

----------------------------------------------------------------------------
(* C20: the updated count *)

\* the worklist entries with a non-empty ref_text in memory
InMemoryTexts == { n \in TaskIdx : MemText(tasks[n]) }

\* the worklist entries with a non-empty ref_text in the document rd
OnDiskTexts(rd) == { n \in TaskIdx : DiskText(rd, tasks[n]) }

\* C20: at the head of every iteration and at the end of the run,
\* updated_count is the number of worklist entries with a non-empty ref_text
\* in memory; it is never more than the number of entries handled so far nor
\* than the number of pending entries; at the end of the run it is the number
\* of entries whose ref_text is in the file and was not there at load.
C20_UpdatedCountExact ==
  /\ pc \in {"iter", "done", "interrupted"} =>
       updated_count = Cardinality(InMemoryTexts)
  /\ pc \in TryBody \cup {"log_error", "done"} \cup AfterInterrupt =>
       /\ updated_count <= Len(tasks)
       /\ updated_count <= i
  /\ pc \in {"done", "interrupted"} =>
       updated_count = Cardinality(OnDiskTexts(ReadDisk))

====
